---- MODULE Spec2Model ----
(***************************************************************************)
(* Model of the time-series analysis package:                              *)
(*   ModelSelector   (src/src/model_selector.py)  grid search over (p,d,q) *)
(*   Forecaster      (src/src/forecaster.py)      evaluation, hold-out CV  *)
(*   ModelDiagnostics(src/src/diagnostics.py)     residual tests           *)
(* The statistics libraries (statsmodels, scipy, sklearn, pandas) are the  *)
(* environment: a fit either raises or returns scores, a test returns a    *)
(* statistic and a p-value.  Their results are drawn from small sets.      *)
(* Floats are modelled as tagged values so that NaN and the infinities     *)
(* compare as IEEE-754 floats do.                                          *)
(***************************************************************************)
EXTENDS Integers, Sequences, FiniteSets, TLC

\* ------------------------------------------------------------------ bounds
\* largest value of max_p, max_d, max_q explored
MaxOrder == 2
\* largest number of candidate orders of one explored grid
MaxGrid == 6
\* longest series / forecast handed to the Forecaster
MaxLen == 3
\* largest number of lags handed to ljung_box_test directly
MaxLags == 2

\* --------------------------------------------------------- program constants
FORECAST_PERIODS == 12
\* config.SIGNIFICANCE_LEVEL = 0.05, in hundredths
SIGNIFICANCE_LEVEL == 5
\* default of the lags parameter of ljung_box_test
DEFAULT_LAGS == 10

\* ------------------------------------------------------------------ floats
Fin(v) == [kind |-> "fin", v |-> v]
NaN == [kind |-> "nan", v |-> 0]
PosInf == [kind |-> "pinf", v |-> 0]
NegInf == [kind |-> "ninf", v |-> 0]

IsNaN(x) == x.kind = "nan"
IsFinite(x) == x.kind = "fin"

\* x < y on floats: false as soon as one side is NaN
FloatLt(x, y) ==
    /\ ~IsNaN(x)
    /\ ~IsNaN(y)
    /\ \/ x.kind = "ninf" /\ y.kind # "ninf"
       \/ x.kind = "fin" /\ y.kind = "pinf"
       \/ x.kind = "fin" /\ y.kind = "fin" /\ x.v < y.v

\* x <= y on floats
FloatLe(x, y) ==
    /\ ~IsNaN(x)
    /\ ~IsNaN(y)
    /\ (x = y \/ FloatLt(x, y))

None == "None"
\* an optional integer: <<>> is None, <<k>> is k
Nothing == <<>>
Some(k) == <<k>>

VARIABLES
    \* ModelSelector
    max_p, max_d, max_q,   \* self.max_p, self.max_d, self.max_q
    pc,                    \* position in grid_search_arima
    pos,                   \* number of candidates the for loop has consumed
    fit_log,               \* every ARIMA(...).fit() call made, with its outcome
    results,               \* the list `results`
    results_df,            \* the returned, sorted table
    best_order,            \* the returned best order
    \* Forecaster
    forecast_periods,      \* self.forecast_periods
    fpc, fop,              \* state and name of the Forecaster call
    series, test_size,     \* arguments of cross_validate_forecast
    train_series, test_series, steps, fit_calls,
    actual, predicted,     \* arguments of evaluate_forecasts
    min_len, actual_subset, predicted_subset,
    metrics, error,
    \* ModelDiagnostics
    alpha,                 \* self.alpha
    dpc, dop,              \* state and name of the diagnostics call
    lb_test,               \* table returned by acorr_ljungbox
    report                 \* the returned dictionary

selVars == <<max_p, max_d, max_q, pc, pos, fit_log, results, results_df, best_order>>
fcVars == <<forecast_periods, fpc, fop, series, test_size, train_series, test_series,
            steps, fit_calls, actual, predicted, min_len, actual_subset,
            predicted_subset, metrics, error>>
dgVars == <<alpha, dpc, dop, lb_test, report>>
vars == <<selVars, fcVars, dgVars>>

\* ===================================================== ModelSelector
\* range(0, m): the upper bound left out
RangeExclusive(m) == 0 .. m - 1

\* range(0, m + 1)
Range(m) == 0 .. m

\* number of elements of product(p_values, d_values, q_values)
GridSize(mp, md, mq) ==
    Cardinality(Range(mp)) * Cardinality(Range(md)) * Cardinality(Range(mq))

\* k-th element (0-based) of product(p_values, d_values, q_values):
\* the rightmost iterable advances fastest
ProductAt(mp, md, mq, k) ==
    LET nd == Cardinality(Range(md))
        nq == Cardinality(Range(mq))
    IN  <<k \div (nd * nq), (k \div nq) % nd, k % nq>>

\* what model.fit() can do: raise, or return a model with some aic
AicValues == {Fin(1), Fin(2), NaN, NegInf, PosInf}
Raised == [ok |-> FALSE, aic |-> NaN]
Fitted(a) == [ok |-> TRUE, aic |-> a]
FitOutcomes == {Raised} \cup {Fitted(a) : a \in AicValues}

\* an except branch that gives the search up
OnFitExceptionAbort ==
    /\ results' = results
    /\ pc' = "raised"

\* the except branch: continue
OnFitException ==
    /\ results' = results
    /\ pc' = pc

\* results.append({...}); bic, llf and params are stored beside aic and read by
\* nothing in the search, so the rows keep order and aic only
OnFitSuccess(order, out) ==
    /\ results' = Append(results, [order |-> order, aic |-> out.aic])
    /\ pc' = pc

\* one iteration of the for loop
FitStep ==
    /\ pc = "loop"
    /\ pos < GridSize(max_p, max_d, max_q)
    /\ LET order == ProductAt(max_p, max_d, max_q, pos)
       IN  \E out \in FitOutcomes :
             /\ fit_log' = Append(fit_log, [order |-> order, ok |-> out.ok, aic |-> out.aic])
             /\ IF out.ok THEN OnFitSuccess(order, out) ELSE OnFitException
    /\ pos' = pos + 1
    /\ UNCHANGED <<max_p, max_d, max_q, results_df, best_order>>
    /\ UNCHANGED <<fcVars, dgVars>>

\* indices of rows whose aic is not NaN / is NaN, in table order
NonNanIdx(rows) == {i \in 1 .. Len(rows) : ~IsNaN(rows[i].aic)}
NanIdx(rows) == {i \in 1 .. Len(rows) : IsNaN(rows[i].aic)}

\* the members of S in increasing order
RECURSIVE Ascending(_)
Ascending(S) ==
    IF S = {} THEN <<>>
    ELSE LET m == CHOOSE x \in S : \A y \in S : x <= y
         IN  <<m>> \o Ascending(S \ {m})

\* argsort(kind='quicksort') of the non-NaN keys: quicksort is not stable, so
\* every index order that leaves the keys non-decreasing is a possible result
RECURSIVE ArgSorts(_, _)
ArgSorts(rows, S) ==
    IF S = {} THEN {<<>>}
    ELSE LET least == {i \in S : \A j \in S : FloatLe(rows[i].aic, rows[j].aic)}
         IN  UNION {{<<i>> \o t : t \in ArgSorts(rows, S \ {i})} : i \in least}

\* sort_values('aic').reset_index(drop=True): non-NaN rows by argsort, NaN rows
\* last in their original order
SortValues(rows) ==
    {[k \in 1 .. Len(rows) |-> rows[(ix \o Ascending(NanIdx(rows)))[k]]] :
        ix \in ArgSorts(rows, NonNanIdx(rows))}

\* no order has been returned
NoOrder == <<>>

\* a check that also rejects a single result
NoResultsOffByOne == Len(results) <= 1

\* if not results: raise ValueError
NoResults == results = <<>>

\* lines 47-56: the check, the sort and the return
Finish ==
    /\ pc = "loop"
    /\ pos = GridSize(max_p, max_d, max_q)
    /\ IF NoResults
       THEN /\ pc' = "raised"
            /\ UNCHANGED <<results_df, best_order>>
       ELSE \E df \in SortValues(results) :
              /\ results_df' = df
              /\ best_order' = df[1].order
              /\ pc' = "returned"
    /\ UNCHANGED <<max_p, max_d, max_q, pos, fit_log, results>>
    /\ UNCHANGED <<fcVars, dgVars>>

\* results_df.head(top_n)
compare_models(df, top_n) ==
    SubSeq(df, 1, IF top_n < Len(df) THEN top_n ELSE Len(df))

\* ModelSelector.__init__
SelectorConstructed ==
    /\ max_p \in 0 .. MaxOrder
    /\ max_d \in 0 .. MaxOrder
    /\ max_q \in 0 .. MaxOrder
    /\ GridSize(max_p, max_d, max_q) <= MaxGrid
    /\ pc = "loop"
    /\ pos = 0
    /\ fit_log = <<>>
    /\ results = <<>>
    /\ results_df = <<>>
    /\ best_order = NoOrder

\* no ModelSelector in this run
SelectorAbsent ==
    /\ max_p = 0 /\ max_d = 0 /\ max_q = 0
    /\ pc = "absent"
    /\ pos = 0
    /\ fit_log = <<>>
    /\ results = <<>>
    /\ results_df = <<>>
    /\ best_order = NoOrder

\* ========================================================= Forecaster
\* Python's normalisation of a slice bound i for a sequence of length n
SliceIndex(i, n) ==
    IF i < 0 THEN (IF i + n < 0 THEN 0 ELSE i + n)
    ELSE (IF i > n THEN n ELSE i)

\* s.iloc[i:]
IlocFrom(s, i) == SubSeq(s, SliceIndex(i, Len(s)) + 1, Len(s))

\* s.iloc[:j]
IlocTo(s, j) == SubSeq(s, 1, SliceIndex(j, Len(s)))

\* min(a, b)
Min(a, b) == IF a < b THEN a ELSE b

Abs(x) == IF x < 0 THEN -x ELSE x

RECURSIVE SumSeq(_)
SumSeq(s) == IF s = <<>> THEN 0 ELSE Head(s) + SumSeq(Tail(s))

\* observations and point forecasts
Values == {1, 2}
SeqsUpTo(n) == UNION {[1 .. k -> Values] : k \in 0 .. n}

\* sklearn's input validation: both arrays non-empty and of the same length
ConsistentLength(a, p) == Len(a) = Len(p) /\ Len(a) > 0

\* mean_squared_error / mean_absolute_error as exact fractions num/den
MeanSquaredError(a, p) ==
    [num |-> SumSeq([i \in 1 .. Len(a) |-> (a[i] - p[i]) * (a[i] - p[i])]), den |-> Len(a)]
MeanAbsoluteError(a, p) ==
    [num |-> SumSeq([i \in 1 .. Len(a) |-> Abs(a[i] - p[i])]), den |-> Len(a)]

NoMetrics == [mse |-> None, mae |-> None]

\* lines 38-40 of evaluate_forecasts
AlignedLength(a, p) == Min(Len(a), Len(p))
ActualSubset(a, p) == IlocFrom(a, -AlignedLength(a, p))
PredictedSubset(a, p) == IlocTo(p, AlignedLength(a, p))

\* body of evaluate_forecasts(a, p)
EvaluateBody(a, p) ==
    /\ actual' = a
    /\ predicted' = p
    /\ min_len' = AlignedLength(a, p)
    /\ actual_subset' = ActualSubset(a, p)
    /\ predicted_subset' = PredictedSubset(a, p)
    /\ IF ConsistentLength(ActualSubset(a, p), PredictedSubset(a, p))
       THEN /\ metrics' = [mse |-> MeanSquaredError(ActualSubset(a, p), PredictedSubset(a, p)),
                           mae |-> MeanAbsoluteError(ActualSubset(a, p), PredictedSubset(a, p))]
            /\ error' = None
            /\ fpc' = "returned"
       ELSE /\ metrics' = NoMetrics
            /\ error' = "ValueError"
            /\ fpc' = "raised"

\* a call of evaluate_forecasts
evaluate_forecasts ==
    /\ fpc = "idle"
    /\ \E a \in SeqsUpTo(MaxLen), p \in SeqsUpTo(MaxLen) : EvaluateBody(a, p)
    /\ fop' = "evaluate_forecasts"
    /\ UNCHANGED <<forecast_periods, series, test_size, train_series, test_series,
                   steps, fit_calls>>
    /\ UNCHANGED <<selVars, dgVars>>

\* generate_forecasts: predicted_mean of get_forecast(steps) has `steps` points
generate_forecasts(n) ==
    LET k == IF n = Nothing THEN forecast_periods ELSE n[1]
    IN  [1 .. k -> Values]

\* lines 61-62 of cross_validate_forecast
TrainSegment(s, k) == IlocTo(s, -k)
TestSegment(s, k) == IlocFrom(s, -k)

\* a call of cross_validate_forecast: the split, the fit on the training
\* segment (which raises or returns, whatever the segment), the forecast of
\* test_size steps and its evaluation against the test segment
cross_validate_forecast ==
    /\ fpc = "idle"
    /\ fop' = "cross_validate_forecast"
    /\ \E s \in SeqsUpTo(MaxLen) \ {<<>>}, k \in 0 .. MaxLen + 1 :
         /\ k <= Len(s) + 1
         /\ series' = s
         /\ test_size' = k
         /\ train_series' = TrainSegment(s, k)
         /\ test_series' = TestSegment(s, k)
         /\ fit_calls' = fit_calls + 1
         /\ \E fitted \in BOOLEAN :
              IF fitted
              THEN /\ steps' = Some(k)
                   /\ \E f \in generate_forecasts(Some(k)) :
                        EvaluateBody(TestSegment(s, k), f)
              ELSE /\ steps' = Nothing
                   /\ error' = "FitError"
                   /\ fpc' = "raised"
                   /\ metrics' = NoMetrics
                   /\ UNCHANGED <<actual, predicted, min_len, actual_subset, predicted_subset>>
    /\ UNCHANGED forecast_periods
    /\ UNCHANGED <<selVars, dgVars>>

\* Forecaster.__init__
ForecasterConstructed ==
    /\ forecast_periods = FORECAST_PERIODS
    /\ fpc = "idle"
    /\ fop = None
    /\ series = <<>> /\ test_size = 0
    /\ train_series = <<>> /\ test_series = <<>>
    /\ steps = Nothing /\ fit_calls = 0
    /\ actual = <<>> /\ predicted = <<>>
    /\ min_len = 0 /\ actual_subset = <<>> /\ predicted_subset = <<>>
    /\ metrics = NoMetrics /\ error = None

\* no Forecaster in this run
ForecasterAbsent ==
    /\ forecast_periods = FORECAST_PERIODS
    /\ fpc = "absent"
    /\ fop = None
    /\ series = <<>> /\ test_size = 0
    /\ train_series = <<>> /\ test_series = <<>>
    /\ steps = Nothing /\ fit_calls = 0
    /\ actual = <<>> /\ predicted = <<>>
    /\ min_len = 0 /\ actual_subset = <<>> /\ predicted_subset = <<>>
    /\ metrics = NoMetrics /\ error = None

\* ===================================================== ModelDiagnostics
\* p-values in hundredths, and the statistics the tests report
PValues == {Fin(0), Fin(4), Fin(5), Fin(6), Fin(50), NaN}
StatValues == {Fin(0), Fin(3)}
AlphaValues == {Fin(1), Fin(SIGNIFICANCE_LEVEL)}

\* acorr_ljungbox(residuals, lags=lags, return_df=True): one row per lag 1..lags
LbTables(lags) ==
    {[i \in 1 .. lags |->
        [lb_stat |-> Fin(i), lb_pvalue |-> IF i = lags THEN pl ELSE pe]] :
        pe \in PValues, pl \in PValues}

\* tbl.iloc[-1]
IlocLast(tbl) == tbl[Len(tbl)]

\* p_value <= self.alpha
IsSignificantInclusive(p, a) == FloatLe(p, a)

\* is_significant = p_value < self.alpha
IsSignificant(p, a) == FloatLt(p, a)

\* ljung_box_test, given the table acorr_ljungbox returned
ljung_box_test(tbl, a) ==
    LET p_value == IlocLast(tbl).lb_pvalue
        is_significant == IsSignificant(p_value, a)
    IN  [test_statistic |-> IlocLast(tbl).lb_stat,
         p_value |-> p_value,
         is_significant |-> is_significant,
         interpretation |-> IF is_significant
                            THEN "Residuals show autocorrelation"
                            ELSE "No significant autocorrelation"]

\* jarque_bera_test, given what stats.jarque_bera returned
jarque_bera_test(jb_stat, p_value, a) ==
    LET is_significant == IsSignificant(p_value, a)
    IN  [test_statistic |-> jb_stat,
         p_value |-> p_value,
         is_significant |-> is_significant,
         interpretation |-> IF is_significant
                            THEN "Residuals are not normally distributed"
                            ELSE "Residuals are approximately normal"]

\* adf_test, given what adfuller returned
adf_test(adf_stat, p_value, used_lag, critical_values, a) ==
    LET is_stationary == IsSignificant(p_value, a)
    IN  [test_statistic |-> adf_stat,
         p_value |-> p_value,
         critical_values |-> critical_values,
         used_lag |-> used_lag,
         is_stationary |-> is_stationary,
         interpretation |-> IF is_stationary
                            THEN "Series is stationary"
                            ELSE "Series is non-stationary"]

\* residuals.mean(), .std(), stats.skew, stats.kurtosis
ResidualStats == [mean : StatValues, std : StatValues,
                  skewness : StatValues, kurtosis : StatValues]

\* the dictionary comprehensive_diagnostics builds
comprehensive_diagnostics(tbl, jb_stat, jb_p, rs, a) ==
    [ljung_box |-> ljung_box_test(tbl, a),
     jarque_bera |-> jarque_bera_test(jb_stat, jb_p, a),
     residual_stats |-> rs]

\* a call of ljung_box_test(residuals, lags)
CallLjungBox ==
    /\ dpc = "idle"
    /\ \E lags \in 1 .. MaxLags : \E tbl \in LbTables(lags) :
         /\ lb_test' = tbl
         /\ report' = ljung_box_test(tbl, alpha)
    /\ dop' = "ljung_box_test"
    /\ dpc' = "returned"
    /\ UNCHANGED alpha
    /\ UNCHANGED <<selVars, fcVars>>

\* a call of jarque_bera_test(residuals)
CallJarqueBera ==
    /\ dpc = "idle"
    /\ \E st \in StatValues, p \in PValues :
         report' = jarque_bera_test(st, p, alpha)
    /\ dop' = "jarque_bera_test"
    /\ dpc' = "returned"
    /\ UNCHANGED <<alpha, lb_test>>
    /\ UNCHANGED <<selVars, fcVars>>

\* a call of adf_test(series)
CallAdf ==
    /\ dpc = "idle"
    /\ \E st \in StatValues, p \in PValues, lag \in 0 .. 1 :
         report' = adf_test(st, p, lag, <<Fin(-3), Fin(-2), Fin(-1)>>, alpha)
    /\ dop' = "adf_test"
    /\ dpc' = "returned"
    /\ UNCHANGED <<alpha, lb_test>>
    /\ UNCHANGED <<selVars, fcVars>>

\* a call of comprehensive_diagnostics(fitted_model, original_series)
CallComprehensive ==
    /\ dpc = "idle"
    /\ \E tbl \in LbTables(DEFAULT_LAGS), st \in StatValues, p \in PValues,
          rs \in ResidualStats :
         /\ lb_test' = tbl
         /\ report' = comprehensive_diagnostics(tbl, st, p, rs, alpha)
    /\ dop' = "comprehensive_diagnostics"
    /\ dpc' = "returned"
    /\ UNCHANGED alpha
    /\ UNCHANGED <<selVars, fcVars>>

\* ModelDiagnostics.__init__
DiagnosticsConstructed ==
    /\ alpha \in AlphaValues
    /\ dpc = "idle"
    /\ dop = None
    /\ lb_test = <<>>
    /\ report = [interpretation |-> None]

\* no ModelDiagnostics in this run
DiagnosticsAbsent ==
    /\ alpha = Fin(SIGNIFICANCE_LEVEL)
    /\ dpc = "absent"
    /\ dop = None
    /\ lb_test = <<>>
    /\ report = [interpretation |-> None]

\* ====================================================== specifications
InitSelector == SelectorConstructed /\ ForecasterAbsent /\ DiagnosticsAbsent
NextSelector == FitStep \/ Finish
SpecSelector == InitSelector /\ [][NextSelector]_vars

InitForecaster == SelectorAbsent /\ ForecasterConstructed /\ DiagnosticsAbsent
NextForecaster == evaluate_forecasts \/ cross_validate_forecast
SpecForecaster == InitForecaster /\ [][NextForecaster]_vars

InitDiagnostics == SelectorAbsent /\ ForecasterAbsent /\ DiagnosticsConstructed
NextDiagnostics == CallLjungBox \/ CallJarqueBera \/ CallAdf \/ CallComprehensive
SpecDiagnostics == InitDiagnostics /\ [][NextDiagnostics]_vars

\* ============================================================== claims
SearchDone == pc \in {"returned", "raised"}
Attempted == [i \in 1 .. Len(fit_log) |-> fit_log[i].order]
SucceededOrders == {fit_log[i].order : i \in {j \in 1 .. Len(fit_log) : fit_log[j].ok}}
NumSucceeded == Cardinality({j \in 1 .. Len(fit_log) : fit_log[j].ok})
FullGrid == (max_p + 1) * (max_d + 1) * (max_q + 1)
LexLess(a, b) ==
    \/ a[1] < b[1]
    \/ a[1] = b[1] /\ a[2] < b[2]
    \/ a[1] = b[1] /\ a[2] = b[2] /\ a[3] < b[3]

\* C1: a failed fit never ends the search and never enters the results: the
\* search ends only after every candidate of the grid was attempted, it
\* returns as soon as one fit succeeded, and the returned table holds exactly
\* the orders whose fit succeeded, each once.
C1_FailedFitsExcluded ==
    /\ SearchDone => Len(fit_log) = FullGrid
    /\ (SearchDone /\ NumSucceeded > 0) => pc = "returned"
    /\ pc = "returned" =>
         /\ {results_df[i].order : i \in 1 .. Len(results_df)} = SucceededOrders
         /\ Len(results_df) = NumSucceeded

\* a search that returned although a fit failed before a later one succeeded
C1_Witness ==
    /\ pc = "returned"
    /\ \E i, j \in 1 .. Len(fit_log) : i < j /\ ~fit_log[i].ok /\ fit_log[j].ok
    /\ Len(results_df) < Len(fit_log)

\* C2: the returned table is sorted non-decreasing by aic, rows of equal aic
\* keep their enumeration order, and the best order is the first row's, the
\* earliest-enumerated order among those of minimal aic.
C2_SortedStableBest ==
    pc = "returned" =>
      /\ \A i \in 1 .. Len(results_df) - 1 :
           FloatLe(results_df[i].aic, results_df[i + 1].aic)
      /\ \A i, j \in 1 .. Len(results_df) :
           (i < j /\ results_df[i].aic = results_df[j].aic)
             => LexLess(results_df[i].order, results_df[j].order)
      /\ best_order = results_df[1].order
      /\ \A i \in 2 .. Len(results_df) :
           /\ FloatLe(results_df[1].aic, results_df[i].aic)
           /\ results_df[i].aic = results_df[1].aic
                => LexLess(best_order, results_df[i].order)

\* C3: the search raises the no-viable-model error exactly when no fit
\* succeeded; it then returns no best order and no table; otherwise it returns
\* a non-empty table and a best order.
C3_RaisesIffNoSuccess ==
    /\ pc = "raised" =>
         /\ NumSucceeded = 0
         /\ best_order = NoOrder
         /\ results_df = <<>>
    /\ pc = "returned" =>
         /\ NumSucceeded > 0
         /\ results_df # <<>>
         /\ best_order # NoOrder
    /\ (SearchDone /\ NumSucceeded = 0) => pc = "raised"

\* a search in which every of several candidates failed
C3_Witness ==
    /\ pc = "raised"
    /\ Len(fit_log) >= 2
    /\ \A i \in 1 .. Len(fit_log) : ~fit_log[i].ok

\* C6: no row of the returned table has a non-finite aic, and the best order
\* is not one whose fit reported a non-finite aic.
C6_NoNonFiniteAic ==
    pc = "returned" =>
      /\ \A i \in 1 .. Len(results_df) : IsFinite(results_df[i].aic)
      /\ \A i \in 1 .. Len(fit_log) :
           (fit_log[i].ok /\ ~IsFinite(fit_log[i].aic)) => best_order # fit_log[i].order

\* C7: the fits are attempted in increasing (p, d, q) order, p outermost,
\* each triple within the inclusive bounds and none twice or skipped; a
\* finished search attempted (max_p+1)*(max_d+1)*(max_q+1) triples, and
\* exactly (0,0,0) when all bounds are 0.
C7_FullGridInOrder ==
    /\ \A i \in 1 .. Len(Attempted) :
         /\ Attempted[i][1] \in 0 .. max_p
         /\ Attempted[i][2] \in 0 .. max_d
         /\ Attempted[i][3] \in 0 .. max_q
    /\ \A i, j \in 1 .. Len(Attempted) : i < j => LexLess(Attempted[i], Attempted[j])
    /\ \A i \in 1 .. Len(Attempted) :
         i - 1 = Attempted[i][1] * (max_d + 1) * (max_q + 1)
                 + Attempted[i][2] * (max_q + 1) + Attempted[i][3]
    /\ SearchDone => Len(Attempted) = FullGrid
    /\ (SearchDone /\ max_p = 0 /\ max_d = 0 /\ max_q = 0) => Attempted = << <<0, 0, 0>> >>

\* a finished search over a 2 x 1 x 3 grid
C7_Witness ==
    /\ SearchDone
    /\ max_p = 1 /\ max_d = 0 /\ max_q = 2
    /\ Len(fit_log) = 6
    /\ Attempted[2] = <<0, 0, 1>>
    /\ Attempted[4] = <<1, 0, 0>>

CvCalled == fop = "cross_validate_forecast"

\* C4: cross_validate_forecast fails with InsufficientDataError, before any
\* fit and without metrics, when test_size >= len(series), and not with that
\* error when test_size = len(series) - 1.
C4_InsufficientData ==
    /\ (CvCalled /\ test_size >= Len(series)) =>
         /\ fpc = "raised"
         /\ error = "InsufficientDataError"
         /\ fit_calls = 0
         /\ metrics = NoMetrics
    /\ (CvCalled /\ test_size = Len(series) - 1) => error # "InsufficientDataError"

\* C5: evaluate_forecasts compares exactly min(len(actual), len(predicted))
\* pairs: the last min_len elements of actual against the first min_len of
\* predicted, also when one of the two is empty.
C5_AlignedPairs ==
    fop = "evaluate_forecasts" =>
      LET n == IF Len(actual) < Len(predicted) THEN Len(actual) ELSE Len(predicted)
      IN  /\ min_len = n
          /\ Len(actual_subset) = n
          /\ Len(predicted_subset) = n
          /\ Len(actual_subset) = Len(predicted_subset)
          /\ \A i \in 1 .. Len(actual_subset) :
               i <= n => actual_subset[i] = actual[Len(actual) - n + i]
          /\ \A i \in 1 .. Len(predicted_subset) :
               i <= n => predicted_subset[i] = predicted[i]

\* C10: for 0 <= test_size < n the training segment is the first n - test_size
\* points, the test segment the last test_size points, they concatenate to the
\* series, and the forecast has as many steps as the test segment has points.
C10_SplitSegments ==
    (CvCalled /\ test_size >= 0 /\ test_size < Len(series)) =>
      /\ train_series = SubSeq(series, 1, Len(series) - test_size)
      /\ test_series = SubSeq(series, Len(series) - test_size + 1, Len(series))
      /\ train_series \o test_series = series
      /\ Len(train_series) + Len(test_series) = Len(series)
      /\ steps # Nothing => steps[1] = Len(test_series)

\* C8: the report of comprehensive_diagnostics holds the Ljung-Box, the
\* Jarque-Bera and the ADF results and the residual mean, std, skewness and
\* kurtosis.
C8_ReportHasAllTests ==
    dop = "comprehensive_diagnostics" =>
      /\ {"ljung_box", "jarque_bera", "adf", "residual_stats"} \subseteq DOMAIN report
      /\ {"mean", "std", "skewness", "kurtosis"} \subseteq DOMAIN report.residual_stats

StrictlyBelow(p, a) == p.kind = "fin" /\ a.kind = "fin" /\ p.v < a.v
Flag == IF dop = "adf_test" THEN report.is_stationary ELSE report.is_significant
TestCalled == dop \in {"ljung_box_test", "jarque_bera_test", "adf_test"}

\* the part of C9 about the flag and about every text but that of a flagged
\* Ljung-Box result
FlagAndTexts ==
    /\ TestCalled => (Flag <=> StrictlyBelow(report.p_value, alpha))
    /\ dop = "ljung_box_test" =>
         /\ report.p_value = lb_test[Len(lb_test)].lb_pvalue
         /\ report.test_statistic = lb_test[Len(lb_test)].lb_stat
         /\ ~Flag => report.interpretation = "No significant autocorrelation"
         /\ (alpha = Fin(5) /\ report.p_value = Fin(50)) =>
              (~Flag /\ report.interpretation = "No significant autocorrelation")
    /\ dop = "jarque_bera_test" =>
         report.interpretation = IF Flag THEN "Residuals are not normally distributed"
                                 ELSE "Residuals are approximately normal"
    /\ dop = "adf_test" =>
         report.interpretation = IF Flag THEN "Series is stationary"
                                 ELSE "Series is non-stationary"

\* C9 as stated: the flag is set exactly when p-value < alpha, the text agrees
\* with the flag, and a flagged Ljung-Box result reads "autocorrelation present".
C9_AsStated ==
    /\ FlagAndTexts
    /\ (dop = "ljung_box_test" /\ Flag) => report.interpretation = "autocorrelation present"

\* C9 amended: as C9, with the text of a flagged Ljung-Box result being
\* "Residuals show autocorrelation".
C9_Amended ==
    /\ FlagAndTexts
    /\ (dop = "ljung_box_test" /\ Flag) =>
         report.interpretation = "Residuals show autocorrelation"

\* a Ljung-Box result over two lags whose last p-value equals alpha, the first
\* one lying below it
C9_Witness ==
    /\ dop = "ljung_box_test"
    /\ Len(lb_test) = 2
    /\ report.p_value = alpha
    /\ StrictlyBelow(lb_test[1].lb_pvalue, alpha)
    /\ ~report.is_significant

====
